---- MODULE Spec2Model ----
(***************************************************************************)
(* Model of assemblyai.streaming.v3.client.StreamingClient: one session,   *)
(* its write queue, stop event, dispatch table, socket handle, the two     *)
(* pump threads (_read_message "R", _write_message "W") and the caller     *)
(* threads that use the public API.                                        *)
(*                                                                         *)
(* The same session state carries assemblyai.transcriber.RealtimeTranscriber *)
(* (its _RealtimeTranscriberImpl): its actions are the Rt... definitions   *)
(* and its runs those of RtSpec.                                           *)
(*                                                                         *)
(* assemblyai.client.Client.get_default (ClientSpec) and                   *)
(* assemblyai.transcriber.TranscriptGroup.status (GroupSpec) have their    *)
(* own variables, which the sessions leave alone.                          *)
(***************************************************************************)
EXTENDS Integers, Sequences, FiniteSets, TLC

\* ------------------------------------------------------------------ bounds
MaxEnq     == 3   \* queue.put calls of a run that is about the outbound side
MaxFrames  == 2   \* frames the remote delivers in a run about the inbound side
MaxOn      == 2   \* on() registrations of a run about the inbound side
MaxConnect == 1   \* connect() calls of a run
MaxChange  == 2   \* assignments to assemblyai.settings
MaxGroup   == 4   \* transcripts added to a TranscriptGroup
Few        == 1   \* budget of a dimension a run is not about

\* ------------------------------------------------------- fixed vocabularies
AllCallers   == {"c1", "c2"}
Pumps        == {"R", "W"}
Threads      == AllCallers \cup Pumps

\* StreamingEvents (models.py)
StreamingEvents == {"Begin", "Termination", "Turn", "Error"}

\* StreamingErrorCodes (models.py): close code -> message
StreamingErrorCodes ==
  [c \in {4000, 4001, 4002, 4003, 4004, 4008, 4010, 4029, 4030, 4031, 4032,
          4033, 4034, 4100, 4101, 4102, 4103, 1013} |->
     CASE c = 4000 -> "Sample rate must be a positive integer"
       [] c = 4001 -> "Not Authorized"
       [] c = 4002 -> "Insufficient Funds"
       [] c = 4003 -> "This feature is paid-only"
       [] c = 4004 -> "Session Not Found"
       [] c = 4008 -> "Session Expired"
       [] c = 4010 -> "Session Previously Closed"
       [] c = 4029 -> "Client sent audio too fast"
       [] c = 4030 -> "Session is handled by another websocket"
       [] c = 4031 -> "Session idle for too long"
       [] c = 4032 -> "Audio duration is too short"
       [] c = 4033 -> "Audio duration is too long"
       [] c = 4034 -> "Audio too small to transcode"
       [] c = 4100 -> "Endpoint received invalid JSON"
       [] c = 4101 -> "Endpoint received a message with an invalid schema"
       [] c = 4102 -> "This account has exceeded the number of allowed streams"
       [] c = 4103 -> "The session has been reconnected"
       [] c = 1013 -> "Temporary server condition forced blocking client's request"]

\* close codes the transport reports in this model: normal closure, a table
\* entry inside 4000..4999, a code of no table and the table entry outside
\* 4000..4999
CloseCodes == {1000, 4001, 1006, 1013}

\* the close reason carried by a ConnectionClosed exception
RawReason == "raw close reason"

\* StreamingError.code is None
NoCode == -1

\* ------------------------------------------------------------------ frames
\* A text frame as the read pump sees it: whether json.loads accepts it, the
\* value of its "type" key, of its "error" key ("absent" when missing) and
\* whether the pydantic model of its type validates it, and the value of its
\* "transcript" key ("" for a Turn frame that says nothing).
Frame(j, t, e, v) ==
  [json |-> j, type |-> t, error |-> e, valid |-> v,
   transcript |-> IF t = "Turn" THEN "" ELSE "absent"]

NotJsonFrame     == Frame(FALSE, "absent", "absent", FALSE)
BeginFrame       == Frame(TRUE, "Begin", "absent", TRUE)
TurnFrame        == Frame(TRUE, "Turn", "absent", TRUE)
TerminationFrame == Frame(TRUE, "Termination", "absent", TRUE)
ErrorFrame       == Frame(TRUE, "absent", "remote error", TRUE)
UnknownFrame     == Frame(TRUE, "Unknown", "absent", TRUE)
NeitherFrame     == Frame(TRUE, "absent", "absent", TRUE)

NoFrame          == Frame(FALSE, "none", "none", FALSE)

\* JSON objects with an "error" key beside a "type" key, and a Turn frame
\* whose required fields are missing
TurnWithErrorFrame    == Frame(TRUE, "Turn", "remote error", TRUE)
UnknownWithErrorFrame == Frame(TRUE, "Unknown", "remote error", TRUE)
InvalidTurnFrame      == Frame(TRUE, "Turn", "absent", FALSE)

CodecFrames == {TurnWithErrorFrame, UnknownWithErrorFrame, InvalidTurnFrame}

\* a Turn frame whose transcript is "hello"
HelloFrame       == [TurnFrame EXCEPT !.transcript = "hello"]

Frames == {NotJsonFrame, BeginFrame, TurnFrame, TerminationFrame, ErrorFrame,
           UnknownFrame, NeitherFrame}

\* ------------------------------------------------------------- queue items
Item(k, i) == [kind |-> k, id |-> i]
NoItem     == Item("none", 0)

\* isinstance(data, bytes) / isinstance(data, BaseModel) in _write_message
IsBytes(it)     == it.kind = "bytes"
IsBaseModel(it) == it.kind \in {"Terminate", "UpdateConfiguration", "ForceEndpoint"}

\* ------------------------------------------------------------------ errors
\* what _handle_error is given
NoErr             == [src |-> "none", code |-> 0, text |-> ""]
ErrorEventOf(f)   == [src |-> "event", code |-> 0, text |-> f.error]
ConnectionClosed(c) == [src |-> "closed", code |-> c, text |-> RawReason]

StreamingError(m, c) == [message |-> m, code |-> c]

\* ------------------------------------------------------------------ scopes
\* The runs explored are those of a few scopes. A scope fixes the caller
\* threads of the run and how many puts, received frames and registrations
\* the run may contain. It also fixes the connect() calls of the run, the
\* events on() was called with before the run starts (registered), the
\* frames the remote sends when the run is about one conversation (script;
\* <<>> leaves the remote free), and for a RealtimeTranscriber the optional
\* callbacks it was constructed with. In a scope with reenter the registered
\* handlers may call disconnect() on the client they are given.
Scope(cs, e, f, o) ==
  [callers |-> cs, enq |-> e, frames |-> f, on |-> o, connects |-> MaxConnect,
   registered |-> <<>>, script |-> <<>>, callbacks |-> {}, reenter |-> FALSE]

OutboundScope   == Scope({"c1"}, MaxEnq, Few, 0)
ConcurrentScope == Scope({"c1", "c2"}, Few + 1, 0, 0)
InboundScope    == Scope({"c1"}, 0, MaxFrames, MaxOn)
SmallScope      == Scope({"c1"}, Few, Few, Few)

\* connect() is called again on the same client
ReconnectScope  == [Scope({"c1"}, Few, 0, 0) EXCEPT !.connects = MaxConnect + 1]

\* one conversation: a handler for each event kind, then Begin, a Turn that
\* says "hello", and Termination
EndToEndScope ==
  [Scope({"c1"}, 0, MaxFrames + 1, 0) EXCEPT
     !.registered = <<"Begin", "Turn", "Termination", "Error">>,
     !.script = <<BeginFrame, HelloFrame, TerminationFrame>>]

\* the remote sends frame f and then a Turn, to a client with a Turn and an
\* Error handler
CodecScope(f) ==
  [Scope({"c1"}, 0, MaxFrames, 0) EXCEPT
     !.registered = <<"Turn", "Error">>,
     !.script = <<f, TurnFrame>>]

\* the remote sends a Turn and then Termination, to a client whose Turn
\* handler and whose two Termination handlers may call disconnect()
ReentrantScope ==
  [Scope({"c1"}, Few, MaxFrames, 0) EXCEPT
     !.registered = <<"Turn", "Termination", "Termination">>,
     !.script = <<TurnFrame, TerminationFrame>>,
     !.reenter = TRUE]

\* a caller streams and disconnects while the remote sends a Turn, whose
\* handler may call disconnect(), and then Termination
FlushScope ==
  [Scope({"c1"}, MaxEnq, MaxFrames, 0) EXCEPT
     !.registered = <<"Turn">>,
     !.script = <<TurnFrame, TerminationFrame>>,
     !.reenter = TRUE]

VARIABLES
  scope,       \* the scope of this run
  pc,          \* control state of every thread
  term,        \* per thread: the terminate argument of its running disconnect
  idx,         \* per thread: position of its handler loop
  err,         \* per thread: the error its _handle_error was given
  handlers,    \* self._handlers
  queue,       \* self._write_queue
  wItem,       \* the item _write_message took from the queue
  stop,        \* self._stop_event
  ws,          \* self._websocket: 0 while the attribute is unset, else a socket
  nSock,       \* sockets opened so far
  openSocks,   \* sockets opened and not yet closed with close()
  closeCode,   \* 0 while the connection of ws is up, else its close code
  rMsg,        \* the event _handle_message is dispatching
  rFrame,      \* message_data: the frame the last recv() returned
  nRecv,       \* frames recv() returned so far
  enqLog,      \* history: items put on the write queue, in order
  sent,        \* history: items passed to websocket.send, in order
  cur,         \* history: per thread, the handler calls of its last handler loop
  errEventDone, \* history: _handle_error(ErrorEvent) has returned to _read_message
  notJsonSeen, \* history: recv() has returned a frame json.loads rejects
  raised,      \* history: API calls that raised to their caller
  graceful,    \* history: ids of Terminate items put on a connected session
  nConnect,    \* connect() calls so far
  lastOpen,    \* history: per caller, how the socket open of its last connect ended
  stopPolls,   \* history: per pump, polls completed while the stop flag was set
  settings,    \* assemblyai.settings, the module-wide Settings object
  default,     \* Client._default
  nClient,     \* Client objects constructed so far
  lock,        \* Client._lock: "free" or the thread holding it
  gpc,         \* per thread: position in Client.get_default
  req,         \* per thread: the api_key_required argument of its call
  got,         \* per thread: what its last get_default call returned
  nChange,     \* assignments to assemblyai.settings so far
  transcripts  \* TranscriptGroup.transcripts, as the statuses of the members

\* the state of one streaming or realtime session
streamVars == <<scope, pc, term, idx, err, handlers, queue, wItem, stop, ws, nSock,
                openSocks, closeCode, rMsg, rFrame, nRecv, enqLog, sent, cur,
                errEventDone, notJsonSeen, raised, graceful, nConnect, lastOpen,
                stopPolls>>

\* the state of the library outside a session
libVars == <<settings, default, nClient, lock, gpc, req, got, nChange, transcripts>>

vars == <<streamVars, libVars>>

\* groups of variables, for UNCHANGED
sessionVars == <<handlers, stop, ws, nSock, openSocks, closeCode>>
queueVars   == <<queue, enqLog, graceful>>
readVars    == <<rMsg, rFrame, nRecv>>
writeVars   == <<wItem, sent>>
localVars   == <<term, idx, err>>
histVars    == <<cur, errEventDone, notJsonSeen, raised, nConnect, lastOpen,
                 stopPolls>>

\* ------------------------------------------------------------ pure helpers
Min(a, b) == IF a < b THEN a ELSE b

Exited(t) == pc[t] \in {"done", "dead"}
Started(t) == pc[t] # "new"

\* both pump threads were started by a successful connect()
Connected == Started("W") /\ Started("R")

\* mutant of Enqueue: a Terminate message overtakes the items that wait
EnqueueUrgent(q, it) == IF it.kind = "Terminate" THEN <<it>> \o q ELSE Append(q, it)

\* queue.Queue.put: the item joins the tail
Enqueue(q, it) == Append(q, it)

\* mutant of QueueGet: the newest item (a LIFO queue)
QueueGetNewest(q) == q[Len(q)]

\* queue.Queue.get: the oldest item
QueueGet(q) == Head(q)

\* mutant of StopAfterMessage: the stop event is not set
StopNeverSet(m, s) == s

\* _handle_message: `if isinstance(message, TerminationEvent): set()`; the
\* value of the stop event after the dispatch of message m began
StopAfterMessage(m, s) == s \/ m = "Termination"

\* mutant of ShouldTerminate: the stop event is not looked at
ShouldTerminateAlways(terminate, s) == terminate

\* disconnect: `if terminate and not self._stop_event.is_set()`
ShouldTerminate(terminate, s) == terminate /\ ~s

\* mutant of KeepRunning: the loop does not look at the stop event
KeepRunningAlways(s) == TRUE

\* `while not self._stop_event.is_set()` of both pumps
KeepRunning(s) == ~s

\* mutant of NextHandler: the list is walked from its end
NextHandlerReversed(hs, i) == hs[Len(hs) + 1 - i]

\* `for handler in self._handlers[...]`: the handler of iteration i
NextHandler(hs, i) == hs[i]

\* _parse_error
ParseError(e) ==
  IF e.src = "event"
    THEN StreamingError(e.text, NoCode)
    ELSE LET error_message ==
               IF e.code >= 4000 /\ e.code <= 4999
                  /\ e.code \in DOMAIN StreamingErrorCodes
                 THEN StreamingErrorCodes[e.code]
                 ELSE e.text
         IN  IF e.code # 1000
               THEN StreamingError(error_message, e.code)
               ELSE StreamingError("Unknown error", NoCode)

\* _parse_event_type: the member of StreamingEvents named by the type, or None
ParseEventType(ty) == IF ty \in StreamingEvents THEN ty ELSE "None"

\* _parse_message on a decoded frame: the event model it builds, "None", or
\* "ValidationError" when model_validate raises
ParseMessage(f) ==
  IF f.type # "absent"
    THEN IF ParseEventType(f.type) \in {"Begin", "Termination", "Turn"}
           THEN IF f.valid THEN f.type ELSE "ValidationError"
           ELSE "None"
    ELSE IF f.error # "absent" THEN "ErrorEvent" ELSE "None"

\* mutant of ReadOutcome: json.JSONDecodeError is not caught
ReadOutcomeUncaught(f) ==
  IF ~f.json THEN "raise"
  ELSE IF ParseMessage(f) = "ErrorEvent" THEN "error"
  ELSE IF ParseMessage(f) \in {"Begin", "Termination", "Turn"} THEN "message"
  ELSE "skip"

\* what _read_message does with a received frame: "skip" (log and continue),
\* "error" (_handle_error), "message" (_handle_message) or "raise" (an
\* exception leaves the thread's target function)
ReadOutcome(f) ==
  IF ~f.json THEN "skip"
  ELSE LET m == ParseMessage(f) IN
       CASE m = "ValidationError" -> "raise"
         [] m = "ErrorEvent"      -> "error"
         [] m = "None"            -> IF f.type = "absent" THEN "raise" ELSE "skip"
         [] OTHER                 -> "message"

\* the event model _parse_message builds from a frame of a known type, as
\* far as its handlers look at it
EventOf(f) == [type |-> ParseMessage(f), transcript |-> f.transcript]

\* what on() may be given as event: the members of StreamingEvents and a
\* value that is none of them
EventInputs == StreamingEvents \cup {"NotAnEvent"}

\* mutant of OnResult: callable(handler) is not looked at
OnResultUnchecked(hs, e, callable, h) ==
  IF e \in StreamingEvents THEN [hs EXCEPT ![e] = Append(@, h)] ELSE hs

\* on(event, handler): the dispatch table after the call
OnResult(hs, e, callable, h) ==
  IF e \in StreamingEvents /\ callable THEN [hs EXCEPT ![e] = Append(@, h)] ELSE hs

\* the handlers on() calls with the events of reg, in this order, leave
\* registered for event k; a handler is named by its registration number
RegisteredFor(reg, k) ==
  LET F[i \in 0..Len(reg)] ==
        IF i = 0 THEN <<>>
        ELSE IF reg[i] = k THEN Append(F[i - 1], i) ELSE F[i - 1]
  IN  F[Len(reg)]

\* the frames the remote may send as frame number k of the run
Inbound(k) ==
  IF scope.script = <<>> THEN Frames
  ELSE IF k <= Len(scope.script) THEN {scope.script[k]} ELSE {}

\* one handler invocation: handler h called with (self, arg)
Call(h, arg) == [h |-> h, arg |-> arg]

\* the handlers of a sequence of invocations, in order
CalledHandlers(cs) == [i \in 1..Len(cs) |-> cs[i].h]

IsPrefix(s, t) == Len(s) <= Len(t) /\ SubSeq(t, 1, Len(s)) = s

\* puts that running calls have still to make
PendingPuts ==
  Cardinality({t \in Threads : pc[t] \in {"d_check", "d_put"}})
  + (IF pc["c1"] = "s_iter" THEN idx["c1"] ELSE 0)
  + (IF pc["c2"] = "s_iter" THEN idx["c2"] ELSE 0)

CanPut(n) == Len(enqLog) + PendingPuts + n <= scope.enq

Registrations ==
  Len(handlers["Begin"]) + Len(handlers["Termination"])
  + Len(handlers["Turn"]) + Len(handlers["Error"])

\* ------------------------------------------------ the library's own state
\* threads that call Client.get_default
GetThreads == {"g1", "g2"}

\* Settings, reduced to its api_key field ("None" while no key is set)
ApiKeys == {"None", "before", "test"}

Settings(k) == [api_key |-> k]

NoClient == [id |-> 0, settings |-> Settings("None")]

\* what a get_default call gave its caller: nothing yet, a client, or an
\* exception
Returned(c) == [outcome |-> "returned", client |-> c]

Raised(x) == [outcome |-> x, client |-> NoClient]

NoReturn == [outcome |-> "none", client |-> NoClient]

\* TranscriptStatus
TranscriptStatus == {"queued", "processing", "completed", "error"}

\* the library after import, the api key being one of keys
LibInit(keys) ==
  /\ settings \in {Settings(k) : k \in keys}
  /\ default = NoClient
  /\ nClient = 0
  /\ lock = "free"
  /\ gpc = [g \in GetThreads |-> "idle"]
  /\ req = [g \in GetThreads |-> FALSE]
  /\ got = [g \in GetThreads |-> NoReturn]
  /\ nChange = 0
  /\ transcripts = <<>>

\* ------------------------------------------------------------------- Init
SessionInit(scopes) ==
  /\ scope \in scopes
  /\ pc = [t \in Threads |-> IF t \in Pumps THEN "new" ELSE "idle"]
  /\ term = [t \in Threads |-> FALSE]
  /\ idx = [t \in Threads |-> 0]
  /\ err = [t \in Threads |-> NoErr]
  /\ handlers = [k \in StreamingEvents |-> RegisteredFor(scope.registered, k)]
  /\ queue = <<>>
  /\ wItem = NoItem
  /\ stop = FALSE
  /\ ws = 0
  /\ nSock = 0
  /\ openSocks = {}
  /\ closeCode = 0
  /\ rMsg = "none"
  /\ rFrame = NoFrame
  /\ nRecv = 0
  /\ enqLog = <<>>
  /\ sent = <<>>
  /\ cur = [t \in Threads |-> <<>>]
  /\ errEventDone = FALSE
  /\ notJsonSeen = FALSE
  /\ raised = {}
  /\ graceful = {}
  /\ nConnect = 0
  /\ lastOpen = [c \in AllCallers |-> "none"]
  /\ stopPolls = [p \in Pumps |-> 0]

InitIn(scopes) == LibInit({"None"}) /\ SessionInit(scopes)


\* -------------------------------------------------- the public API, callers
SetPc(t, v) == pc' = [pc EXCEPT ![t] = v]

\* _handle_error(error) is entered by thread t
EnterHandleError(t, error) ==
  /\ err' = [err EXCEPT ![t] = error]
  /\ idx' = [idx EXCEPT ![t] = 1]
  /\ cur' = [cur EXCEPT ![t] = <<>>]
  /\ SetPc(t, "err")

\* mutant of Put: the item does not reach the queue
PutLost(k) ==
  LET it == Item(k, Len(enqLog) + 1)
  IN  /\ queue' = queue
      /\ enqLog' = Append(enqLog, it)
      /\ graceful' = graceful

\* self._write_queue.put(item of kind k)
Put(k) ==
  LET it == Item(k, Len(enqLog) + 1)
  IN  /\ queue' = Enqueue(queue, it)
      /\ enqLog' = Append(enqLog, it)
      /\ graceful' = IF k = "Terminate" /\ Connected
                       THEN graceful \cup {it.id} ELSE graceful

\* stream(data) with data a bytes value: one put
Stream(c) ==
  /\ c \in scope.callers /\ pc[c] = "idle"
  /\ CanPut(1)
  /\ Put("bytes")
  /\ UNCHANGED <<libVars, scope, pc, sessionVars, readVars, writeVars, localVars, histVars>>

\* stream(data) with data an iterable of n elements: the for loop starts
StreamIterable(c) ==
  /\ c \in scope.callers /\ pc[c] = "idle"
  /\ \E n \in 0..2 :
       /\ CanPut(n)
       /\ idx' = [idx EXCEPT ![c] = n]
  /\ SetPc(c, "s_iter")
  /\ UNCHANGED <<libVars, scope, sessionVars, queueVars, readVars, writeVars, term, err,
                 histVars>>

\* one iteration of the for loop of stream: put the next element, whatever
\* its type; or the iterable is exhausted and stream returns
StreamNext(c) ==
  /\ pc[c] = "s_iter"
  /\ \/ /\ idx[c] > 0
        /\ \E k \in {"bytes", "other"} : Put(k)
        /\ idx' = [idx EXCEPT ![c] = @ - 1]
        /\ UNCHANGED pc
     \/ /\ idx[c] = 0
        /\ SetPc(c, "idle")
        /\ UNCHANGED <<queueVars, idx>>
  /\ UNCHANGED <<libVars, scope, sessionVars, readVars, writeVars, term, err, histVars>>

\* set_params(params)
SetParams(c) ==
  /\ c \in scope.callers /\ pc[c] = "idle"
  /\ CanPut(1)
  /\ Put("UpdateConfiguration")
  /\ UNCHANGED <<libVars, scope, pc, sessionVars, readVars, writeVars, localVars, histVars>>

\* force_endpoint()
ForceEndpoint(c) ==
  /\ c \in scope.callers /\ pc[c] = "idle"
  /\ CanPut(1)
  /\ Put("ForceEndpoint")
  /\ UNCHANGED <<libVars, scope, pc, sessionVars, readVars, writeVars, localVars, histVars>>

\* on(event, handler), with any event and a handler that is callable or not;
\* the handler is named by its registration number
On(c) ==
  /\ c \in scope.callers /\ pc[c] = "idle"
  /\ Registrations < scope.on
  /\ \E e \in EventInputs, callable \in BOOLEAN :
       handlers' = OnResult(handlers, e, callable, Registrations + 1)
  /\ UNCHANGED <<libVars, scope, pc, stop, ws, nSock, openSocks, closeCode, queueVars,
                 readVars, writeVars, localVars, histVars>>

\* disconnect(terminate) is called by a caller thread
Disconnect(c) ==
  /\ c \in scope.callers /\ pc[c] = "idle"
  /\ \E terminate \in BOOLEAN :
       /\ terminate => CanPut(1)
       /\ term' = [term EXCEPT ![c] = terminate]
       /\ SetPc(c, IF terminate THEN "d_check" ELSE "d_joinR")
  /\ UNCHANGED <<libVars, scope, sessionVars, queueVars, readVars, writeVars, idx, err,
                 histVars>>

\* connect(params) up to the return of websocket_connect: the open raises
\* ConnectionClosed (caught: _handle_error), raises another exception (not
\* caught), or returns the socket that is assigned to self._websocket
Connect(c) ==
  /\ c \in scope.callers /\ pc[c] = "idle"
  /\ nConnect < scope.connects
  /\ nConnect' = nConnect + 1
  /\ \/ /\ \E code \in CloseCodes : EnterHandleError(c, ConnectionClosed(code))
        /\ lastOpen' = [lastOpen EXCEPT ![c] = "closed"]
        /\ UNCHANGED <<ws, nSock, openSocks, closeCode, raised>>
     \/ /\ raised' = raised \cup {<<c, "connect", "transport">>}
        /\ lastOpen' = [lastOpen EXCEPT ![c] = "other"]
        /\ UNCHANGED <<pc, idx, err, cur, ws, nSock, openSocks, closeCode>>
     \/ /\ nSock' = nSock + 1
        /\ ws' = nSock + 1
        /\ openSocks' = openSocks \cup {nSock + 1}
        /\ closeCode' = 0
        /\ lastOpen' = [lastOpen EXCEPT ![c] = "ok"]
        /\ SetPc(c, "c_startW")
        /\ UNCHANGED <<idx, err, cur, raised>>
  /\ UNCHANGED <<libVars, scope, handlers, stop, queueVars, readVars, writeVars, term,
                 errEventDone, notJsonSeen, stopPolls>>

\* connect: self._write_thread.start()
StartW(c) ==
  /\ pc[c] = "c_startW"
  /\ IF pc["W"] = "new"
       THEN /\ pc' = [pc EXCEPT ![c] = "c_startR", !["W"] = "w_loop"]
            /\ UNCHANGED raised
       ELSE /\ SetPc(c, "idle")
            /\ raised' = raised \cup {<<c, "connect", "thread">>}
  /\ UNCHANGED <<libVars, scope, sessionVars, queueVars, readVars, writeVars, localVars,
                 cur, errEventDone, notJsonSeen, nConnect, lastOpen, stopPolls>>

\* connect: self._read_thread.start(), then connect returns
StartR(c) ==
  /\ pc[c] = "c_startR"
  /\ IF pc["R"] = "new"
       THEN /\ pc' = [pc EXCEPT ![c] = "idle", !["R"] = "r_loop"]
            /\ UNCHANGED raised
       ELSE /\ SetPc(c, "idle")
            /\ raised' = raised \cup {<<c, "connect", "thread">>}
  /\ UNCHANGED <<libVars, scope, sessionVars, queueVars, readVars, writeVars, localVars,
                 cur, errEventDone, notJsonSeen, nConnect, lastOpen, stopPolls>>


\* ------------------------------------------------ disconnect, on any thread
\* where thread t continues when its disconnect() returns: a caller is back
\* from its API call; a handler that called it goes on and returns to the loop
\* of _handle_message; _read_message goes on after _handle_error(message) and
\* returns after _handle_error(exc); _write_message returns
\* mutant of AfterDisconnect: the read pump goes back to its loop while the
\* handler that called disconnect() has not returned
AfterDisconnectToLoop(t) ==
  CASE t = "R" -> IF rMsg # "none" \/ err["R"].src = "event" THEN "r_loop" ELSE "done"
    [] t = "W" -> "done"
    [] OTHER   -> "idle"

AfterDisconnect(t) ==
  CASE t = "R" -> IF rMsg # "none" THEN "r_disp"
                  ELSE IF err["R"].src = "event" THEN "r_loop" ELSE "done"
    [] t = "W" -> "done"
    [] OTHER   -> "idle"

\* disconnect returns (normally, or its except clause swallowed an exception)
DisconnectReturns(t) ==
  /\ SetPc(t, AfterDisconnect(t))
  /\ term' = [term EXCEPT ![t] = FALSE]
  /\ err' = [err EXCEPT ![t] = NoErr]
  /\ errEventDone' = (errEventDone \/ (t = "R" /\ err["R"].src = "event"))

\* mutant of ExceptPass: the RuntimeError of the join leaves disconnect and
\* ends the thread that called it
ExceptPropagates(t) ==
  /\ SetPc(t, "dead")
  /\ term' = [term EXCEPT ![t] = FALSE]
  /\ err' = [err EXCEPT ![t] = NoErr]
  /\ errEventDone' = errEventDone

\* disconnect: `except Exception: pass`, then the return
ExceptPass(t) == DisconnectReturns(t)

\* disconnect: `if terminate and not self._stop_event.is_set()`
DCheck(t) ==
  /\ pc[t] = "d_check"
  /\ SetPc(t, IF ShouldTerminate(term[t], stop) THEN "d_put" ELSE "d_joinR")
  /\ UNCHANGED <<libVars, scope, sessionVars, queueVars, readVars, writeVars, localVars,
                 histVars>>

\* disconnect: self._write_queue.put(TerminateSession())
DPut(t) ==
  /\ pc[t] = "d_put"
  /\ Put("Terminate")
  /\ SetPc(t, "d_joinR")
  /\ UNCHANGED <<libVars, scope, sessionVars, readVars, writeVars, localVars, histVars>>

\* mutant of Join: a join that returns while the thread is still running
JoinNoWait(t, p) ==
  IF t = p \/ pc[p] = "new" THEN "raise" ELSE "return"

\* Thread.join() called by thread t on thread p: "raise" (RuntimeError: p
\* is the current thread or was never started), "return" (p has ended) or
\* "block"
Join(t, p) ==
  IF t = p \/ pc[p] = "new" THEN "raise"
  ELSE IF Exited(p) THEN "return" ELSE "block"

\* disconnect: self._read_thread.join()
DJoinR(t) ==
  /\ pc[t] = "d_joinR"
  /\ Join(t, "R") # "block"
  /\ IF Join(t, "R") = "raise"
       THEN ExceptPass(t)
       ELSE SetPc(t, "d_joinW") /\ UNCHANGED <<term, err, errEventDone>>
  /\ UNCHANGED <<libVars, scope, sessionVars, queueVars, readVars, writeVars, idx, cur,
                 notJsonSeen, raised, nConnect, lastOpen, stopPolls>>

\* disconnect: self._write_thread.join()
DJoinW(t) ==
  /\ pc[t] = "d_joinW"
  /\ Join(t, "W") # "block"
  /\ IF Join(t, "W") = "raise"
       THEN ExceptPass(t)
       ELSE SetPc(t, "d_close") /\ UNCHANGED <<term, err, errEventDone>>
  /\ UNCHANGED <<libVars, scope, sessionVars, queueVars, readVars, writeVars, idx, cur,
                 notJsonSeen, raised, nConnect, lastOpen, stopPolls>>

\* disconnect: `if self._websocket: self._websocket.close()`, then return
DClose(t) ==
  /\ pc[t] = "d_close"
  /\ openSocks' = IF ws # 0 THEN openSocks \ {ws} ELSE openSocks
  /\ DisconnectReturns(t)
  /\ UNCHANGED <<libVars, scope, handlers, stop, ws, nSock, closeCode, queueVars, readVars,
                 writeVars, idx, cur, notJsonSeen, raised, nConnect, lastOpen,
                 stopPolls>>

\* ------------------------------------------------- _handle_error, any thread
\* thread t leaves through an exception: a pump thread ends, connect()
\* raises to its caller
ThreadRaises(t, why) ==
  /\ SetPc(t, IF t \in Pumps THEN "dead" ELSE "idle")
  /\ raised' = IF t \in Pumps THEN raised ELSE raised \cup {<<t, "connect", why>>}
  /\ err' = [err EXCEPT ![t] = NoErr]

\* _handle_error: one step of `for handler in self._handlers[Error]`, called
\* with _parse_error(error); after the loop, self.disconnect()
ErrStep(t) ==
  /\ pc[t] = "err"
  /\ IF idx[t] <= Len(handlers["Error"])
       THEN /\ cur' = [cur EXCEPT ![t] =
                         Append(@, Call(NextHandler(handlers["Error"], idx[t]),
                                        ParseError(err[t])))]
            /\ \/ /\ idx' = [idx EXCEPT ![t] = @ + 1]
                  /\ UNCHANGED <<pc, err, raised>>
               \/ /\ ThreadRaises(t, "handler")
                  /\ UNCHANGED idx
            /\ UNCHANGED term
       ELSE /\ SetPc(t, "d_joinR")
            /\ term' = [term EXCEPT ![t] = FALSE]
            /\ UNCHANGED <<idx, err, cur, raised>>
  /\ UNCHANGED <<libVars, scope, sessionVars, queueVars, readVars, writeVars, errEventDone,
                 notJsonSeen, nConnect, lastOpen, stopPolls>>

\* a ConnectionClosed exception raised by recv or send: the connection was
\* closed before, or is found closed now
Closes(code) ==
  /\ code \in CloseCodes
  /\ closeCode \in {0, code}
  /\ closeCode' = code

\* ------------------------------------------------------------ _read_message
\* `while not self._stop_event.is_set()`
RLoop ==
  /\ pc["R"] = "r_loop"
  /\ SetPc("R", IF KeepRunning(stop) THEN "r_recv" ELSE "done")
  /\ UNCHANGED <<libVars, scope, sessionVars, queueVars, readVars, writeVars, localVars,
                 histVars>>

CountPoll(p) ==
  stopPolls' = [stopPolls EXCEPT ![p] = IF stop THEN Min(@ + 1, 2) ELSE @]

\* recv(timeout=1) up to the call of _handle_error or _handle_message: a
\* timeout, a ConnectionClosed, or a frame that is decoded and parsed
RRecv ==
  /\ pc["R"] = "r_recv"
  /\ CountPoll("R")
  /\ \/ /\ SetPc("R", "r_loop")
        /\ UNCHANGED <<stop, closeCode, readVars, idx, err, cur, notJsonSeen>>
     \/ /\ \E code \in CloseCodes :
             /\ Closes(code)
             /\ EnterHandleError("R", ConnectionClosed(code))
        /\ UNCHANGED <<stop, readVars, notJsonSeen>>
     \/ /\ closeCode = 0
        /\ nRecv < scope.frames
        /\ nRecv' = nRecv + 1
        /\ \E f \in Inbound(nRecv + 1) :
             /\ rFrame' = f
             /\ notJsonSeen' = (notJsonSeen \/ ~f.json)
             /\ CASE ReadOutcome(f) = "skip" ->
                       /\ SetPc("R", "r_loop")
                       /\ UNCHANGED <<stop, rMsg, idx, err, cur>>
                  [] ReadOutcome(f) = "raise" ->
                       /\ SetPc("R", "dead")
                       /\ UNCHANGED <<stop, rMsg, idx, err, cur>>
                  [] ReadOutcome(f) = "error" ->
                       /\ EnterHandleError("R", ErrorEventOf(f))
                       /\ UNCHANGED <<stop, rMsg>>
                  [] OTHER ->
                       \* _handle_message: set the stop event for a
                       \* TerminationEvent, then loop over the handlers
                       /\ stop' = StopAfterMessage(ParseMessage(f), stop)
                       /\ rMsg' = ParseMessage(f)
                       /\ idx' = [idx EXCEPT !["R"] = 1]
                       /\ cur' = [cur EXCEPT !["R"] = <<>>]
                       /\ SetPc("R", "r_disp")
                       /\ UNCHANGED err
        /\ UNCHANGED closeCode
  /\ UNCHANGED <<libVars, scope, handlers, ws, nSock, openSocks, queueVars, writeVars, term,
                 errEventDone, raised, nConnect, lastOpen>>

\* _handle_message: one step of `for handler in self._handlers[event_type]`
RDispatch ==
  /\ pc["R"] = "r_disp"
  /\ IF idx["R"] <= Len(handlers[rMsg])
       THEN /\ cur' = [cur EXCEPT !["R"] =
                         Append(@, Call(NextHandler(handlers[rMsg], idx["R"]), rMsg))]
            /\ \/ /\ idx' = [idx EXCEPT !["R"] = @ + 1]
                  /\ UNCHANGED pc
               \/ /\ SetPc("R", "dead")
                  /\ UNCHANGED idx
            /\ UNCHANGED rMsg
       ELSE /\ SetPc("R", "r_loop")
            /\ rMsg' = "none"
            /\ UNCHANGED <<idx, cur>>
  /\ UNCHANGED <<libVars, scope, sessionVars, queueVars, rFrame, nRecv, writeVars, term, err,
                 errEventDone, notJsonSeen, raised, nConnect, lastOpen, stopPolls>>

\* _handle_message: the handler called by this step of the loop calls
\* client.disconnect(terminate) before it returns
RHandlerDisconnect ==
  /\ pc["R"] = "r_disp"
  /\ scope.reenter
  /\ idx["R"] <= Len(handlers[rMsg])
  /\ cur' = [cur EXCEPT !["R"] =
               Append(@, Call(NextHandler(handlers[rMsg], idx["R"]), rMsg))]
  /\ idx' = [idx EXCEPT !["R"] = @ + 1]
  /\ \E terminate \in BOOLEAN :
       /\ terminate => (stop \/ CanPut(1))
       /\ term' = [term EXCEPT !["R"] = terminate]
       /\ SetPc("R", IF terminate THEN "d_check" ELSE "d_joinR")
  /\ UNCHANGED <<libVars, scope, sessionVars, queueVars, readVars, writeVars, err,
                 errEventDone, notJsonSeen, raised, nConnect, lastOpen, stopPolls>>

\* ----------------------------------------------------------- _write_message
\* `while not self._stop_event.is_set()`
WLoop ==
  /\ pc["W"] = "w_loop"
  /\ SetPc("W", IF KeepRunning(stop) THEN "w_get" ELSE "done")
  /\ UNCHANGED <<libVars, scope, sessionVars, queueVars, readVars, writeVars, localVars,
                 histVars>>

\* self._write_queue.get(timeout=1): an item, or queue.Empty and `continue`
WGet ==
  /\ pc["W"] = "w_get"
  /\ CountPoll("W")
  /\ IF queue # <<>>
       THEN /\ wItem' = QueueGet(queue)
            /\ queue' = Tail(queue)
            /\ SetPc("W", "w_send")
       ELSE /\ SetPc("W", "w_loop")
            /\ UNCHANGED <<wItem, queue>>
  /\ UNCHANGED <<libVars, scope, sessionVars, enqLog, graceful, readVars, sent, localVars,
                 cur, errEventDone, notJsonSeen, raised, nConnect, lastOpen>>

\* the send of the dequeued item: sent, ConnectionClosed (_handle_error, then
\* return), or ValueError for an item that is neither bytes nor a BaseModel
WSend ==
  /\ pc["W"] = "w_send"
  /\ wItem' = NoItem
  /\ IF IsBytes(wItem) \/ IsBaseModel(wItem)
       THEN \/ /\ closeCode = 0
               /\ sent' = Append(sent, wItem)
               /\ SetPc("W", "w_loop")
               /\ UNCHANGED <<closeCode, idx, err, cur>>
            \/ /\ \E code \in CloseCodes :
                    /\ Closes(code)
                    /\ EnterHandleError("W", ConnectionClosed(code))
               /\ UNCHANGED sent
       ELSE /\ SetPc("W", "dead")
            /\ UNCHANGED <<closeCode, sent, idx, err, cur>>
  /\ UNCHANGED <<libVars, scope, handlers, stop, ws, nSock, openSocks, queueVars, readVars,
                 term, errEventDone, notJsonSeen, raised, nConnect, lastOpen,
                 stopPolls>>

\* ------------------------------------------------------------ specification
CallerNext(c) ==
  \/ Stream(c) \/ StreamIterable(c) \/ StreamNext(c) \/ SetParams(c)
  \/ ForceEndpoint(c) \/ On(c) \/ Disconnect(c) \/ Connect(c)
  \/ StartW(c) \/ StartR(c)

DisconnectNext(t) == DCheck(t) \/ DPut(t) \/ DJoinR(t) \/ DJoinW(t) \/ DClose(t)

ReadNext ==
  \/ RLoop \/ RRecv \/ RDispatch \/ RHandlerDisconnect
  \/ ErrStep("R") \/ DisconnectNext("R")
WriteNext == WLoop \/ WGet \/ WSend \/ ErrStep("W") \/ DisconnectNext("W")

Next ==
  \/ \E c \in AllCallers : CallerNext(c) \/ ErrStep(c) \/ DisconnectNext(c)
  \/ ReadNext
  \/ WriteNext

Init ==
  InitIn({OutboundScope, ConcurrentScope, InboundScope, ReconnectScope,
          ReentrantScope}
         \cup {CodecScope(f) : f \in CodecFrames})

Spec == Init /\ [][Next]_vars

\* The pump threads and a thread inside an API call keep running; whether a
\* caller makes another call, and what the remote sends, is not constrained.
Fairness ==
  /\ WF_vars(ReadNext)
  /\ WF_vars(WriteNext)
  /\ \A c \in AllCallers :
       WF_vars(StreamNext(c) \/ StartW(c) \/ StartR(c) \/ ErrStep(c) \/ DisconnectNext(c))

LiveInit == InitIn({SmallScope, ReentrantScope})

FairSpec == LiveInit /\ [][Next]_vars /\ Fairness

\* the runs of one conversation, next to those of the small scope and of
\* the scope with reentrant handlers
EndToEndInit == InitIn({SmallScope, EndToEndScope, ReentrantScope})

EndToEndSpec == EndToEndInit /\ [][Next]_vars /\ Fairness

\* the runs in which audio and Terminate messages wait in the queue, next to
\* those of the small scope
FlushInit == InitIn({SmallScope, FlushScope})

FlushSpec == FlushInit /\ [][Next]_vars /\ Fairness


\* ================================================== RealtimeTranscriber
\* RealtimeErrorMapping (types.py): close code -> message
RealtimeErrorMapping ==
  [c \in {4000, 4001, 4002, 4003, 4004, 4008, 4010, 4029, 4030, 4031, 4032,
          4033, 4100, 4101, 4102, 4103, 1013} |->
     CASE c = 4000 -> "Sample rate must be a positive integer"
       [] c = 4001 -> "Not Authorized"
       [] c = 4002 -> "Insufficient Funds"
       [] c = 4003 -> "This feature is paid-only"
       [] c = 4004 -> "Session Not Found"
       [] c = 4008 -> "Session Expired"
       [] c = 4010 -> "Session Previously Closed"
       [] c = 4029 -> "Client sent audio too fast"
       [] c = 4030 -> "Session is handled by another websocket"
       [] c = 4031 -> "Session idle for too long"
       [] c = 4032 -> "Audio duration is too short"
       [] c = 4033 -> "Audio duration is too long"
       [] c = 4100 -> "Endpoint received invalid JSON"
       [] c = 4101 -> "Endpoint received a message with an invalid schema"
       [] c = 4102 -> "This account has exceeded the number of allowed streams"
       [] c = 4103 -> "The session has been reconnected"
       [] c = 1013 -> "Temporary server condition forced blocking client's request"]

\* close codes the transport reports to a RealtimeTranscriber in this model:
\* those of CloseCodes and a code inside 4000..4999 the table does not have
RtCloseCodes == CloseCodes \cup {4034}

\* messages of the exceptions websocket_connect raises in this model
OpenFailures == {"connection failed", "timed out during opening handshake"}

\* the exception connect() caught
OpenFailed(x) == [src |-> "open", code |-> 0, text |-> x]

\* RealtimeError(text): text is the sequence of the parts of the message
RealtimeError(text) == [error |-> text]

\* mutant of CouldNotConnect: the exception is left out of the message
CouldNotConnectBare(x) == <<"Could not connect to the real-time service">>

\* connect: f"Could not connect to the real-time service: {exc}"
CouldNotConnect(x) == <<"Could not connect to the real-time service: ", x>>

\* _read: f"Could not decode message: {exc}"
CouldNotDecode == <<"Could not decode message: ", "JSONDecodeError">>

\* the frames of the real-time service, by their "message_type" key
PartialFrame           == Frame(TRUE, "PartialTranscript", "absent", TRUE)
FinalFrame             == Frame(TRUE, "FinalTranscript", "absent", TRUE)
SessionBeginsFrame     == Frame(TRUE, "SessionBegins", "absent", TRUE)
SessionTerminatedFrame == Frame(TRUE, "SessionTerminated", "absent", TRUE)

RtFrames == {NotJsonFrame, PartialFrame, FinalFrame, SessionBeginsFrame,
             SessionTerminatedFrame, UnknownFrame, ErrorFrame, NeitherFrame}

\* RealtimeMessageTypes (types.py)
RealtimeMessageTypes == {"PartialTranscript", "FinalTranscript", "SessionBegins"}

\* what a step of a pump comes to: the callbacks it invoked, in order, and
\* whether an exception left the thread's target function
Outcome(calls, raises) == [calls |-> calls, raises |-> raises]

\* _handle_message(message) with the optional callbacks cbs. The chain of
\* comparisons ends with RealtimeMessageTypes.session_terminated, which is
\* not a member of the enumeration: evaluating it raises AttributeError.
RtHandleMessage(f, cbs) ==
  IF f.type # "absent"
    THEN CASE f.type \in {"PartialTranscript", "FinalTranscript"} ->
                IF f.valid THEN Outcome(<<Call("on_data", f.type)>>, FALSE)
                           ELSE Outcome(<<>>, TRUE)
           [] f.type = "SessionBegins" /\ "on_open" \in cbs ->
                IF f.valid THEN Outcome(<<Call("on_open", f.type)>>, FALSE)
                           ELSE Outcome(<<>>, TRUE)
           [] OTHER -> Outcome(<<>>, TRUE)
    ELSE IF f.error # "absent"
           THEN Outcome(<<Call("on_error", RealtimeError(<<f.error>>))>>, FALSE)
           ELSE Outcome(<<>>, FALSE)

\* _read on a received frame: json.loads, then _handle_message
RtReadOutcome(f, cbs) ==
  IF ~f.json
    THEN Outcome(<<Call("on_error", RealtimeError(CouldNotDecode))>>, FALSE)
    ELSE RtHandleMessage(f, cbs)

\* _handle_error(error) up to self.close(): the table lookup raises KeyError
\* for a code inside 4000..4999 that is not a key
RtErrorOutcome(e) ==
  IF e.code >= 4000 /\ e.code <= 4999 /\ e.code \notin DOMAIN RealtimeErrorMapping
    THEN Outcome(<<>>, TRUE)
    ELSE LET error_message ==
               IF e.code >= 4000 /\ e.code <= 4999
                 THEN RealtimeErrorMapping[e.code] ELSE e.text
         IN  IF e.code # 1000
               THEN Outcome(<<Call("on_error", RealtimeError(<<error_message>>))>>, FALSE)
               ELSE Outcome(<<>>, FALSE)

\* _encode_data / json.dumps: the text frame sent for a queue item
RtWire(it) ==
  IF IsBytes(it) THEN [kind |-> "text", json |-> "audio_data", base64 |-> it.id]
                 ELSE [kind |-> "text", json |-> "terminate_session", base64 |-> 0]

\* session state no step of a RealtimeTranscriber changes
rtUnused == <<libVars, scope, idx, handlers, rMsg, errEventDone, notJsonSeen,
              graceful, stopPolls>>

\* self._write_queue.put(item of kind k)
RtPut(k) ==
  LET it == Item(k, Len(enqLog) + 1)
  IN  /\ queue' = Enqueue(queue, it)
      /\ enqLog' = Append(enqLog, it)

\* connect(timeout) up to the return of websocket_connect: any exception is
\* reported through on_error, whose result connect returns; or the socket is
\* assigned to self._websocket
RtConnect(c) ==
  /\ c \in scope.callers /\ pc[c] = "idle"
  /\ nConnect < scope.connects
  /\ nConnect' = nConnect + 1
  /\ \/ /\ \E x \in OpenFailures :
             /\ err' = [err EXCEPT ![c] = OpenFailed(x)]
             /\ cur' = [cur EXCEPT ![c] =
                          <<Call("on_error", RealtimeError(CouldNotConnect(x)))>>]
        /\ lastOpen' = [lastOpen EXCEPT ![c] = "other"]
        /\ UNCHANGED <<pc, ws, nSock, openSocks, closeCode>>
     \/ /\ nSock' = nSock + 1
        /\ ws' = nSock + 1
        /\ openSocks' = openSocks \cup {nSock + 1}
        /\ closeCode' = 0
        /\ lastOpen' = [lastOpen EXCEPT ![c] = "ok"]
        /\ err' = [err EXCEPT ![c] = NoErr]
        /\ cur' = [cur EXCEPT ![c] = <<>>]
        /\ SetPc(c, "rt_startR")
  /\ UNCHANGED <<rtUnused, term, queue, wItem, stop, rFrame, nRecv, enqLog, sent,
                 raised>>

\* connect: self._read_thread.start()
RtStartR(c) ==
  /\ pc[c] = "rt_startR"
  /\ IF pc["R"] = "new"
       THEN /\ pc' = [pc EXCEPT ![c] = "rt_startW", !["R"] = "r_loop"]
            /\ UNCHANGED raised
       ELSE /\ SetPc(c, "idle")
            /\ raised' = raised \cup {<<c, "connect", "thread">>}
  /\ UNCHANGED <<rtUnused, term, err, queue, wItem, stop, ws, nSock, openSocks,
                 closeCode, rFrame, nRecv, enqLog, sent, cur, nConnect, lastOpen>>

\* connect: self._write_thread.start(), then connect returns
RtStartW(c) ==
  /\ pc[c] = "rt_startW"
  /\ IF pc["W"] = "new"
       THEN /\ pc' = [pc EXCEPT ![c] = "idle", !["W"] = "w_loop"]
            /\ UNCHANGED raised
       ELSE /\ SetPc(c, "idle")
            /\ raised' = raised \cup {<<c, "connect", "thread">>}
  /\ UNCHANGED <<rtUnused, term, err, queue, wItem, stop, ws, nSock, openSocks,
                 closeCode, rFrame, nRecv, enqLog, sent, cur, nConnect, lastOpen>>

\* RealtimeTranscriber.stream(data): a bytes value, or an iterable whose one
\* element is put whatever its type
RtStream(c) ==
  /\ c \in scope.callers /\ pc[c] = "idle"
  /\ Len(enqLog) < scope.enq
  /\ \E k \in {"bytes", "other"} : RtPut(k)
  /\ UNCHANGED <<rtUnused, pc, term, err, wItem, stop, ws, nSock, openSocks,
                 closeCode, rFrame, nRecv, sent, cur, raised, nConnect, lastOpen>>

\* RealtimeTranscriber.close(): _impl.close(terminate=True) up to the joins
RtClose(c) ==
  /\ c \in scope.callers /\ pc[c] = "idle"
  /\ Len(enqLog) < scope.enq
  /\ IF ShouldTerminate(TRUE, stop)
       THEN RtPut("dict")
       ELSE UNCHANGED <<queue, enqLog>>
  /\ term' = [term EXCEPT ![c] = TRUE]
  /\ cur' = [cur EXCEPT ![c] = <<>>]
  /\ err' = [err EXCEPT ![c] = NoErr]
  /\ SetPc(c, "k_joinR")
  /\ UNCHANGED <<rtUnused, wItem, stop, ws, nSock, openSocks, closeCode, rFrame,
                 nRecv, sent, raised, nConnect, lastOpen>>

\* close: self._read_thread.join(); an exception ends the try block
RtJoinR(t) ==
  /\ pc[t] = "k_joinR"
  /\ Join(t, "R") # "block"
  /\ SetPc(t, IF Join(t, "R") = "raise" THEN "k_onclose" ELSE "k_joinW")
  /\ UNCHANGED <<rtUnused, term, err, queue, wItem, stop, ws, nSock, openSocks,
                 closeCode, rFrame, nRecv, enqLog, sent, cur, raised, nConnect,
                 lastOpen>>

\* close: self._write_thread.join()
RtJoinW(t) ==
  /\ pc[t] = "k_joinW"
  /\ Join(t, "W") # "block"
  /\ SetPc(t, IF Join(t, "W") = "raise" THEN "k_onclose" ELSE "k_close")
  /\ UNCHANGED <<rtUnused, term, err, queue, wItem, stop, ws, nSock, openSocks,
                 closeCode, rFrame, nRecv, enqLog, sent, cur, raised, nConnect,
                 lastOpen>>

\* close: self._websocket.close()
RtSocketClose(t) ==
  /\ pc[t] = "k_close"
  /\ openSocks' = IF ws # 0 THEN openSocks \ {ws} ELSE openSocks
  /\ SetPc(t, "k_onclose")
  /\ UNCHANGED <<rtUnused, term, err, queue, wItem, stop, ws, nSock, closeCode,
                 rFrame, nRecv, enqLog, sent, cur, raised, nConnect, lastOpen>>

\* close: `if self._on_close: self._on_close()`, then close returns: to the
\* caller, or to _handle_error, whose result the pump returns
RtOnClose(t) ==
  /\ pc[t] = "k_onclose"
  /\ cur' = [cur EXCEPT ![t] =
               IF "on_close" \in scope.callbacks
                 THEN Append(@, Call("on_close", "none")) ELSE @]
  /\ SetPc(t, IF t \in Pumps THEN "done" ELSE "idle")
  /\ term' = [term EXCEPT ![t] = FALSE]
  /\ UNCHANGED <<rtUnused, err, queue, wItem, stop, ws, nSock, openSocks, closeCode,
                 rFrame, nRecv, enqLog, sent, raised, nConnect, lastOpen>>

\* a pump caught ConnectionClosed: _handle_error(exc) up to self.close()
RtHandleError(t) ==
  /\ pc[t] = "rt_err"
  /\ cur' = [cur EXCEPT ![t] = RtErrorOutcome(err[t]).calls]
  /\ SetPc(t, IF RtErrorOutcome(err[t]).raises THEN "dead" ELSE "k_joinR")
  /\ term' = [term EXCEPT ![t] = FALSE]
  /\ UNCHANGED <<rtUnused, err, queue, wItem, stop, ws, nSock, openSocks, closeCode,
                 rFrame, nRecv, enqLog, sent, raised, nConnect, lastOpen>>

\* recv or send raises ConnectionClosed, which pump t catches
RtCloses(t) ==
  \E code \in RtCloseCodes :
    /\ closeCode \in {0, code}
    /\ closeCode' = code
    /\ err' = [err EXCEPT ![t] = ConnectionClosed(code)]
    /\ cur' = [cur EXCEPT ![t] = <<>>]
    /\ SetPc(t, "rt_err")

\* _read: `while not self._stop_event.is_set()`
RtRLoop ==
  /\ pc["R"] = "r_loop"
  /\ SetPc("R", IF KeepRunning(stop) THEN "r_recv" ELSE "done")
  /\ UNCHANGED <<rtUnused, term, err, queue, wItem, stop, ws, nSock, openSocks,
                 closeCode, rFrame, nRecv, enqLog, sent, cur, raised, nConnect,
                 lastOpen>>

\* _read: recv(timeout=1) and what follows it in the iteration: a timeout, a
\* ConnectionClosed, or a frame that is decoded and handled
RtRRecv ==
  /\ pc["R"] = "r_recv"
  /\ \/ /\ SetPc("R", "r_loop")
        /\ UNCHANGED <<closeCode, err, cur, rFrame, nRecv>>
     \/ /\ RtCloses("R")
        /\ UNCHANGED <<rFrame, nRecv>>
     \/ /\ closeCode = 0
        /\ nRecv < scope.frames
        /\ nRecv' = nRecv + 1
        /\ \E f \in RtFrames :
             /\ rFrame' = f
             /\ cur' = [cur EXCEPT !["R"] = RtReadOutcome(f, scope.callbacks).calls]
             /\ SetPc("R", IF RtReadOutcome(f, scope.callbacks).raises
                             THEN "dead" ELSE "r_loop")
        /\ UNCHANGED <<closeCode, err>>
  /\ UNCHANGED <<rtUnused, term, queue, wItem, stop, ws, nSock, openSocks, enqLog,
                 sent, raised, nConnect, lastOpen>>

\* _write: `while not self._stop_event.is_set()`
RtWLoop ==
  /\ pc["W"] = "w_loop"
  /\ SetPc("W", IF KeepRunning(stop) THEN "w_get" ELSE "done")
  /\ UNCHANGED <<rtUnused, term, err, queue, wItem, stop, ws, nSock, openSocks,
                 closeCode, rFrame, nRecv, enqLog, sent, cur, raised, nConnect,
                 lastOpen>>

\* _write: self._write_queue.get(timeout=1)
RtWGet ==
  /\ pc["W"] = "w_get"
  /\ IF queue # <<>>
       THEN /\ wItem' = QueueGet(queue)
            /\ queue' = Tail(queue)
            /\ SetPc("W", "w_send")
       ELSE /\ SetPc("W", "w_loop")
            /\ UNCHANGED <<wItem, queue>>
  /\ UNCHANGED <<rtUnused, term, err, stop, ws, nSock, openSocks, closeCode, rFrame,
                 nRecv, enqLog, sent, cur, raised, nConnect, lastOpen>>

\* _write: the send of the dequeued item: a dict as JSON, bytes encoded by
\* _encode_data, ValueError for anything else; or ConnectionClosed
RtWSend ==
  /\ pc["W"] = "w_send"
  /\ wItem' = NoItem
  /\ IF IsBytes(wItem) \/ wItem.kind = "dict"
       THEN \/ /\ closeCode = 0
               /\ sent' = Append(sent, RtWire(wItem))
               /\ SetPc("W", "w_loop")
               /\ UNCHANGED <<closeCode, err, cur>>
            \/ /\ RtCloses("W")
               /\ UNCHANGED sent
       ELSE /\ SetPc("W", "dead")
            /\ UNCHANGED <<closeCode, sent, err, cur>>
  /\ UNCHANGED <<rtUnused, term, queue, stop, ws, nSock, openSocks, rFrame, nRecv,
                 enqLog, raised, nConnect, lastOpen>>

RtCloseNext(t) == RtJoinR(t) \/ RtJoinW(t) \/ RtSocketClose(t) \/ RtOnClose(t)

RtCallerNext(c) ==
  \/ RtConnect(c) \/ RtStartR(c) \/ RtStartW(c) \/ RtStream(c) \/ RtClose(c)
  \/ RtCloseNext(c)

RtReadNext  == RtRLoop \/ RtRRecv \/ RtHandleError("R") \/ RtCloseNext("R")
RtWriteNext == RtWLoop \/ RtWGet \/ RtWSend \/ RtHandleError("W") \/ RtCloseNext("W")

RtNext ==
  \/ \E c \in AllCallers : RtCallerNext(c)
  \/ RtReadNext
  \/ RtWriteNext

\* a RealtimeTranscriber constructed with any of the optional callbacks
RtScope(cbs) == [Scope({"c1"}, MaxEnq, MaxFrames, 0) EXCEPT !.callbacks = cbs]

RtInit == InitIn({RtScope(cbs) : cbs \in SUBSET {"on_open", "on_close"}})

RtSpec == RtInit /\ [][RtNext]_vars


\* =========================================================== Client
\* Client.get_default, its two tests of the cached client: there is none, or
\* its settings differ from the module-wide ones
StaleOnlyNone(d, s) == d = NoClient

Stale(d, s) == d = NoClient \/ d.settings # s

\* Client.__init__ refuses to build a client without an api key when one is
\* required
Refused(s, required) == required /\ s.api_key = "None"

SetGpc(g, v) == gpc' = [gpc EXCEPT ![g] = v]

\* assemblyai.settings.api_key = k, between calls of get_default
ChangeSettings(k) ==
  /\ \A g \in GetThreads : gpc[g] = "idle"
  /\ nChange < MaxChange
  /\ k # settings.api_key
  /\ settings' = Settings(k)
  /\ nChange' = nChange + 1
  /\ UNCHANGED <<streamVars, default, nClient, lock, gpc, req, got, transcripts>>

\* Client.get_default(api_key_required) is called
GetDefault(g, required) ==
  /\ gpc[g] = "idle"
  /\ req' = [req EXCEPT ![g] = required]
  /\ SetGpc(g, "g_check1")
  /\ UNCHANGED <<streamVars, settings, default, nClient, lock, got, nChange,
                 transcripts>>

\* the test outside the lock
GCheck1(g) ==
  /\ gpc[g] = "g_check1"
  /\ SetGpc(g, IF Stale(default, settings) THEN "g_lock" ELSE "g_ret")
  /\ UNCHANGED <<streamVars, settings, default, nClient, lock, req, got, nChange,
                 transcripts>>

\* mutant of Acquirable: the lock excludes nobody
AcquirableAlways(l) == TRUE

\* threading.Lock: a thread enters the with block when no thread holds the lock
Acquirable(l) == l = "free"

\* with cls._lock
GLock(g) ==
  /\ gpc[g] = "g_lock"
  /\ Acquirable(lock)
  /\ lock' = g
  /\ SetGpc(g, "g_check2")
  /\ UNCHANGED <<streamVars, settings, default, nClient, req, got, nChange,
                 transcripts>>

\* the same test inside the lock
GCheck2(g) ==
  /\ gpc[g] = "g_check2"
  /\ SetGpc(g, IF Stale(default, settings) THEN "g_new" ELSE "g_unlock")
  /\ UNCHANGED <<streamVars, settings, default, nClient, lock, req, got, nChange,
                 transcripts>>

\* cls._default = cls(settings=default_settings, ...): the client keeps a
\* copy of the settings; a ValueError of the constructor leaves the with
\* block and the call
GNew(g) ==
  /\ gpc[g] = "g_new"
  /\ IF Refused(settings, req[g])
       THEN /\ lock' = "free"
            /\ got' = [got EXCEPT ![g] = Raised("ValueError")]
            /\ SetGpc(g, "idle")
            /\ UNCHANGED <<default, nClient>>
       ELSE /\ nClient' = nClient + 1
            /\ default' = [id |-> nClient + 1, settings |-> settings]
            /\ SetGpc(g, "g_unlock")
            /\ UNCHANGED <<lock, got>>
  /\ UNCHANGED <<streamVars, settings, req, nChange, transcripts>>

\* the with block ends
GUnlock(g) ==
  /\ gpc[g] = "g_unlock"
  /\ lock' = "free"
  /\ SetGpc(g, "g_ret")
  /\ UNCHANGED <<streamVars, settings, default, nClient, req, got, nChange,
                 transcripts>>

\* return cls._default
GReturn(g) ==
  /\ gpc[g] = "g_ret"
  /\ got' = [got EXCEPT ![g] = Returned(default)]
  /\ SetGpc(g, "idle")
  /\ UNCHANGED <<streamVars, settings, default, nClient, lock, req, nChange,
                 transcripts>>

ClientNext ==
  \/ \E k \in ApiKeys : ChangeSettings(k)
  \/ \E g \in GetThreads :
       \/ \E required \in BOOLEAN : GetDefault(g, required)
       \/ GCheck1(g)
       \/ GLock(g)
       \/ GCheck2(g)
       \/ GNew(g)
       \/ GUnlock(g)
       \/ GReturn(g)

ClientInit == LibInit(ApiKeys) /\ SessionInit({SmallScope})

ClientSpec == ClientInit /\ [][ClientNext]_vars

\* ================================================== TranscriptGroup
Statuses(ts) == {ts[i] : i \in 1..Len(ts)}

\* TranscriptGroup.status with the tests for queued and error exchanged
GroupStatusQueuedFirst(ts) ==
  LET all_status == Statuses(ts) IN
    IF \E s \in all_status : s = "queued" THEN "queued"
    ELSE IF \E s \in all_status : s = "error" THEN "error"
    ELSE IF \E s \in all_status : s = "processing" THEN "processing"
    ELSE IF \A s \in all_status : s = "completed" THEN "completed"
    ELSE "None"

\* TranscriptGroup.status
GroupStatus(ts) ==
  LET all_status == Statuses(ts) IN
    IF \E s \in all_status : s = "error" THEN "error"
    ELSE IF \E s \in all_status : s = "queued" THEN "queued"
    ELSE IF \E s \in all_status : s = "processing" THEN "processing"
    ELSE IF \A s \in all_status : s = "completed" THEN "completed"
    ELSE "None"

\* TranscriptGroup.add_transcript(transcript), the transcript's status being s
AddTranscript(s) ==
  /\ Len(transcripts) < MaxGroup
  /\ transcripts' = Append(transcripts, s)
  /\ UNCHANGED <<streamVars, settings, default, nClient, lock, gpc, req, got,
                 nChange>>

GroupNext == \E s \in TranscriptStatus : AddTranscript(s)

GroupInit == InitIn({SmallScope})

GroupSpec == GroupInit /\ [][GroupNext]_vars

\* ================================================================== claims
DStates == {"d_check", "d_put", "d_joinR", "d_joinW", "d_close"}

OneCaller == Cardinality(scope.callers) = 1

WasSent(id) == \E i \in 1..Len(sent) : sent[i].id = id

\* C1: with one caller thread, when disconnect(terminate=True) put its
\* Terminate on a connected session, what the outbound pump has sent is the
\* items put before the Terminate, in call order, and once the Terminate is
\* sent it is all of them followed by the Terminate, which stays the last
\* item sent.
C1_TerminateAfterAudio ==
  OneCaller =>
    \A g \in graceful :
      IF WasSent(g)
        THEN sent = SubSeq(enqLog, 1, g)
        ELSE IsPrefix(sent, SubSeq(enqLog, 1, g - 1))

C1_Witness ==
  /\ OneCaller
  /\ graceful = {3}
  /\ sent = enqLog
  /\ Len(sent) = 3
  /\ sent[1].kind = "bytes" /\ sent[2].kind = "bytes" /\ sent[3].kind = "Terminate"

\* C2: in every reachable state the items passed to websocket.send are a
\* prefix of the items in the order they were put on the write queue,
\* whichever caller threads put them.
C2_SentIsPrefixOfEnqueued == IsPrefix(sent, enqLog)

\* c1 is blocked in the joins of its disconnect after it put item 1, so item
\* 2 was put by c2
C2_Witness ==
  /\ scope.callers = {"c1", "c2"}
  /\ pc["c1"] = "d_joinR" /\ term["c1"]
  /\ Len(sent) = 2
  /\ sent[1] = Item("Terminate", 1)
  /\ sent[2] = Item("bytes", 2)

\* C3: the inbound pump sets the stop flag when it processes a Termination
\* event; from then on each pump polls at most once more, both pump threads
\* end, and a disconnect() that runs returns.
C3_TerminationStopsSession ==
  /\ [][(nRecv' = nRecv + 1 /\ rFrame' = TerminationFrame) => stop']_vars
  /\ [](stopPolls["R"] = 0 /\ stopPolls["W"] <= 1)
  /\ stop ~> (Exited("R") /\ Exited("W"))
  /\ \A c \in AllCallers : (stop /\ pc[c] \in DStates) ~> (pc[c] = "idle")

\* the session was terminated by the remote, both pumps have ended and a
\* disconnect() of the caller has joined them, closed the socket and returned
C3_Witness ==
  /\ stop /\ rFrame = TerminationFrame
  /\ Exited("R") /\ Exited("W")
  /\ stopPolls["W"] = 1
  /\ nSock = 1 /\ openSocks = {}
  /\ pc["c1"] = "idle"

\* C4: a disconnect(terminate=False) of a caller thread on a connected
\* session eventually returns, with both pump threads ended.
C4_DisconnectReturns ==
  \A c \in AllCallers :
    (pc[c] \in DStates /\ ~term[c] /\ err[c] = NoErr /\ Connected)
      ~> (pc[c] = "idle" /\ Exited("R") /\ Exited("W"))

\* C5: while a pump handles a ConnectionClosed exception of close code 1000,
\* it has invoked no Error handler.
C5_NormalClosureNotReported ==
  \A t \in Pumps :
    (err[t].src = "closed" /\ err[t].code = 1000) => cur[t] = <<>>

\* C6: after recv raised ConnectionClosed in the inbound pump, both pump
\* threads eventually end.
C6_ReadCloseEndsPumps ==
  (err["R"].src = "closed") ~> (Exited("R") /\ Exited("W"))

\* C7: once the inbound pump has handled an error frame, it invokes no
\* handler for any later inbound frame.
C7_ErrorFrameIsTerminal ==
  [][(errEventDone /\ err["R"].src # "closed" /\ err'["R"].src # "closed")
       => Len(cur'["R"]) <= Len(cur["R"])]_vars

\* C8: when the socket open of connect() failed, connect() has not raised the
\* failure to its caller, no pump thread is started, and the Error handlers
\* were invoked in order.
C8_ConnectFailureReported ==
  \A c \in AllCallers :
    (lastOpen[c] \in {"closed", "other"} /\ pc[c] = "idle") =>
      /\ <<c, "connect", "transport">> \notin raised
      /\ ~Started("R") /\ ~Started("W")
      /\ IsPrefix(CalledHandlers(cur[c]), handlers["Error"])

\* C9: the step in which the inbound pump receives a frame that is not JSON
\* invokes no handler, enters no error path, raises nothing, leaves the
\* stop flag and the connection as they are and returns to the head of the
\* receive loop.
C9_NotJsonSkipped ==
  [][(nRecv' = nRecv + 1 /\ ~rFrame'.json) =>
       /\ pc' = [pc EXCEPT !["R"] = "r_loop"]
       /\ UNCHANGED <<stop, cur, err, idx, rMsg, raised, closeCode, errEventDone>>]_vars

\* after a frame that is not JSON the pump dispatches a Turn event
C9_Witness ==
  /\ notJsonSeen
  /\ nRecv = 2 /\ rFrame = TurnFrame
  /\ pc["R"] = "r_loop" /\ ~stop
  /\ Len(cur["R"]) = 1 /\ cur["R"][1].arg = "Turn"

\* C10: a running handler loop has invoked the handlers of its event kind
\* from the first registered on, each once, in registration order; when the
\* loop ends it has invoked all of them.
C10_RegistrationOrder ==
  [][/\ pc["R"] = "r_disp" =>
          IsPrefix(CalledHandlers(cur["R"]), handlers[rMsg])
     /\ (pc["R"] = "r_disp" /\ pc'["R"] = "r_loop") =>
          CalledHandlers(cur["R"]) = handlers[rMsg]
     /\ \A t \in Threads :
          /\ pc[t] = "err" => IsPrefix(CalledHandlers(cur[t]), handlers["Error"])
          /\ (pc[t] = "err" /\ pc'[t] = "d_joinR") =>
               CalledHandlers(cur[t]) = handlers["Error"]]_vars

\* h1 then h2 were registered for Turn, and the loop for a Turn event has
\* ended after calling h1 and then h2
C10_Witness ==
  /\ handlers["Turn"] = <<1, 2>>
  /\ pc["R"] = "r_loop"
  /\ cur["R"] = <<Call(1, "Turn"), Call(2, "Turn")>>

\* the socket of the session was closed with close(): a disconnect() call
\* has joined both pumps and run to its end
SocketClosed == ws # 0 /\ ws \notin openSocks

\* C11: a disconnect() that follows one that ran to its end finds both pump
\* threads ended, so that neither join blocks or fails; and a disconnect()
\* that finds the stop flag set puts no Terminate on the write queue.
C11_DisconnectTwice ==
  /\ [](\A c \in AllCallers :
          (SocketClosed /\ pc[c] \in DStates) =>
             Join(c, "R") = "return" /\ Join(c, "W") = "return")
  /\ [][\A t \in Threads :
          (pc[t] = "d_check" /\ stop /\ pc'[t] # "d_check") =>
             (pc'[t] = "d_joinR" /\ enqLog' = enqLog /\ queue' = queue)]_vars

\* the remote terminated the session, one disconnect() has closed the socket
\* and a second one, with terminate=True, is about to close it again; no
\* Terminate was put
C11_Witness ==
  /\ stop /\ SocketClosed
  /\ pc["c1"] = "d_close" /\ term["c1"]
  /\ enqLog = <<>>

\* C12: in the conversation Begin, Turn "hello", Termination with one handler
\* per event kind, after one connect() and with the connection up: the pump invokes for each frame the
\* handler of its kind, once, in arrival order, with the event built from
\* that frame; the stop flag is true from the Termination frame on and not
\* before; the error path is never entered; and the inbound pump ends.
C12_EndToEnd ==
  /\ []((scope = EndToEndScope /\ nConnect = 1 /\ closeCode = 0 /\ nRecv >= 1) =>
          /\ rFrame = scope.script[nRecv]
          /\ IsPrefix(cur["R"], <<Call(nRecv, rFrame.type)>>)
          /\ pc["R"] \in {"r_loop", "r_recv", "done"} =>
               cur["R"] = <<Call(nRecv, rFrame.type)>>
          /\ (nRecv = 2 /\ cur["R"] # <<>>) =>
               EventOf(rFrame) = [type |-> "Turn", transcript |-> "hello"]
          /\ stop <=> (nRecv = 3)
          /\ \A t \in Pumps : pc[t] # "err" /\ err[t] = NoErr)
  /\ (scope = EndToEndScope /\ nRecv = 3) ~> Exited("R")

C12_Witness ==
  /\ scope = EndToEndScope /\ nConnect = 1 /\ closeCode = 0
  /\ nRecv = 3 /\ stop
  /\ pc["R"] = "done"
  /\ cur["R"] = <<Call(3, "Termination")>>

\* C13: the Error handlers called for a ConnectionClosed exception of a code
\* other than 1000 are given a StreamingError with that code and, as message,
\* the table entry of the code when the table has one and the close reason
\* when it has none.
C13_CloseCodeMapping ==
  \A t \in Threads :
    (err[t].src = "closed" /\ err[t].code # 1000) =>
      \A i \in 1..Len(cur[t]) :
        cur[t][i].arg =
          StreamingError(IF err[t].code \in DOMAIN StreamingErrorCodes
                           THEN StreamingErrorCodes[err[t].code]
                           ELSE err[t].text,
                         err[t].code)

\* C14: at most one socket opened by the client is open.
C14_OneOpenSocket == Cardinality(openSocks) <= 1

OnePut ==
  /\ Len(enqLog') = Len(enqLog) + 1
  /\ SubSeq(enqLog', 1, Len(enqLog)) = enqLog
  /\ queue' = Append(queue, enqLog'[Len(enqLog')])

\* what stream() leaves alone
StreamFrame ==
  UNCHANGED <<stop, handlers, ws, nSock, openSocks, closeCode, sent, raised>>

\* C16: a step of stream(bytes) puts that one item at the tail of the write
\* queue; each iteration of stream(iterable) puts the next chunk at the tail,
\* and the call returns when the chunks are exhausted; no such step raises,
\* touches the socket, the stop flag or the dispatch table.
C16_StreamOnlyEnqueues ==
  [][\A c \in AllCallers :
       /\ (pc[c] = "idle" /\ pc'[c] = "idle" /\ enqLog' # enqLog
           /\ enqLog'[Len(enqLog')].kind = "bytes") =>
            OnePut /\ StreamFrame
       /\ (pc[c] = "s_iter" /\ (pc'[c] # pc[c] \/ idx'[c] # idx[c])) =>
            /\ IF idx[c] > 0
                 THEN OnePut /\ idx'[c] = idx[c] - 1 /\ pc'[c] = "s_iter"
                 ELSE pc'[c] = "idle" /\ UNCHANGED <<queue, enqLog>>
            /\ StreamFrame]_vars

\* after the stop flag was set, stream(iterable) has put its two chunks, which
\* wait in the queue in put order
C16_Witness ==
  /\ scope = OutboundScope /\ stop
  /\ pc["c1"] = "s_iter" /\ idx["c1"] = 0
  /\ Len(enqLog) = 3
  /\ queue = SubSeq(enqLog, 2, 3)
  /\ enqLog[2].kind = "bytes" /\ enqLog[3].kind = "bytes"

\* C17: on() with a member of StreamingEvents and a callable appends the
\* handler to the list of that event and leaves the other lists as they are;
\* with any other input it leaves the dispatch table as it is. A step that
\* changes the table is such an append and changes neither the write queue,
\* the stop flag, the socket nor any thread's position, and raises nothing.
C17_OnRegisters ==
  /\ [](\A e \in EventInputs, callable \in BOOLEAN :
          LET h == Registrations + 1
              r == OnResult(handlers, e, callable, h)
          IN  IF e \in StreamingEvents /\ callable
                THEN /\ r[e] = Append(handlers[e], h)
                     /\ \A k \in StreamingEvents \ {e} : r[k] = handlers[k]
                ELSE r = handlers)
  /\ [][handlers' # handlers =>
          /\ \E e \in StreamingEvents :
               handlers' = [handlers EXCEPT ![e] = Append(@, Registrations + 1)]
          /\ UNCHANGED <<pc, queue, enqLog, stop, ws, nSock, openSocks, closeCode,
                         raised>>]_vars

\* on a connected session a Turn handler and then an Error handler were
\* registered
C17_Witness ==
  /\ Connected /\ ~stop
  /\ handlers = [k \in StreamingEvents |->
                   CASE k = "Turn" -> <<1>> [] k = "Error" -> <<2>> [] OTHER -> <<>>]

\* part is one of the parts of the message text
Contains(text, part) == \E i \in 1..Len(text) : text[i] = part

\* C18: the step of RealtimeTranscriber.connect() in which websocket_connect
\* raises returns to the caller without raising, has invoked on_error once
\* with a RealtimeError whose text contains the message of the exception, and
\* starts no pump thread; a connect() whose websocket_connect succeeds
\* invokes no callback, up to its return.
C18_RtConnectFailureReported ==
  [][\A c \in AllCallers :
       /\ (c \in scope.callers /\ pc[c] = "idle" /\ nConnect' = nConnect + 1) =>
            IF lastOpen'[c] # "ok"
              THEN /\ pc'[c] = "idle"
                   /\ raised' = raised
                   /\ Len(cur'[c]) = 1
                   /\ cur'[c][1].h = "on_error"
                   /\ Contains(cur'[c][1].arg.error, err'[c].text)
                   /\ pc'["R"] = pc["R"] /\ pc'["W"] = pc["W"]
                   /\ UNCHANGED <<ws, openSocks>>
              ELSE cur'[c] = <<>>
       /\ pc[c] \in {"rt_startR", "rt_startW"} => cur'[c] = <<>>]_vars

\* websocket_connect raised Exception("connection failed")
C18_Witness ==
  /\ lastOpen["c1"] = "other" /\ pc["c1"] = "idle"
  /\ err["c1"] = OpenFailed("connection failed")
  /\ cur["c1"] = <<Call("on_error",
                        RealtimeError(<<"Could not connect to the real-time service: ",
                                        "connection failed">>))>>
  /\ ~Started("R") /\ ~Started("W")
  /\ raised = {}

\* C19: a pump of a RealtimeTranscriber that caught ConnectionClosed goes on
\* to close(), and before it has invoked on_error not at all for code 1000
\* and once for any other code, with the table entry of the code when the
\* table has one and the close reason otherwise.
C19_RtCloseCodeHandling ==
  \A t \in Pumps :
    err[t].src = "closed" =>
      /\ pc[t] # "dead"
      /\ pc[t] \in {"k_joinR", "k_joinW", "k_close", "k_onclose"} =>
           cur[t] =
             IF err[t].code = 1000 THEN <<>>
             ELSE <<Call("on_error",
                         RealtimeError(<<IF err[t].code \in DOMAIN RealtimeErrorMapping
                                           THEN RealtimeErrorMapping[err[t].code]
                                           ELSE err[t].text>>))>>

\* C20: the step in which the read pump of a RealtimeTranscriber receives a
\* frame that is not JSON invokes no callback, leaves the stop flag and the
\* connection as they are and returns to the head of the receive loop.
C20_RtDecodeErrorLocal ==
  [][(nRecv' = nRecv + 1 /\ ~rFrame'.json) =>
       /\ cur'["R"] = <<>>
       /\ pc'["R"] = "r_loop"
       /\ UNCHANGED <<stop, closeCode>>]_vars

\* the callbacks _handle_message is to invoke for a decoded message: on_data
\* for a transcript, on_open for SessionBegins when on_open is registered,
\* on_error with the text for a message with an error key and no
\* message_type, none otherwise
CallbacksFor(f, cbs) ==
  IF f.type \in {"PartialTranscript", "FinalTranscript"}
    THEN <<Call("on_data", f.type)>>
  ELSE IF f.type = "SessionBegins" /\ "on_open" \in cbs
    THEN <<Call("on_open", f.type)>>
  ELSE IF f.type = "absent" /\ f.error # "absent"
    THEN <<Call("on_error", RealtimeError(<<f.error>>))>>
  ELSE <<>>

\* C21: the step in which the read pump of a RealtimeTranscriber receives a
\* frame that is JSON invokes exactly the callbacks that match the message,
\* and for a message_type that is none of PartialTranscript, FinalTranscript
\* and SessionBegins it raises nothing: the pump is back at the head of its
\* loop.
C21_RtHandleMessageDispatch ==
  [][(nRecv' = nRecv + 1 /\ rFrame'.json) =>
       /\ cur'["R"] = CallbacksFor(rFrame', scope.callbacks)
       /\ (rFrame'.type \notin RealtimeMessageTypes \cup {"absent"}) =>
            pc'["R"] = "r_loop"]_vars

\* C22: what the write pump of a RealtimeTranscriber has sent is, item by
\* item, what was put on the write queue, and the frame sent for a bytes
\* chunk is that chunk.
C22_RtSendsRawChunks ==
  /\ Len(sent) <= Len(enqLog)
  /\ \A i \in 1..Len(sent) : IsBytes(enqLog[i]) => sent[i] = enqLog[i]


\* C23: every client Client.get_default returns has settings equal to the
\* module-wide settings of that call, so a client cached under earlier settings
\* is never handed out once the settings differ from its own. (The settings
\* are assigned between calls, so those at the return are those of the call.)
C23_DefaultClientIsCurrent ==
  [][\A g \in GetThreads :
       (gpc[g] = "g_ret" /\ gpc'[g] = "idle") =>
         /\ got'[g].outcome = "returned"
         /\ got'[g].client # NoClient
         /\ got'[g].client.settings = settings]_vars

\* a call returned the second client, built after the settings were changed
C23_Witness ==
  \E g \in GetThreads :
    /\ gpc[g] = "idle"
    /\ got[g].outcome = "returned"
    /\ got[g].client.id = 2
    /\ nChange >= 1
    /\ got[g].client.settings = settings

\* the precedence of the statuses: error > queued > processing > completed
Rank(s) ==
  CASE s = "error" -> 3
    [] s = "queued" -> 2
    [] s = "processing" -> 1
    [] s = "completed" -> 0
    [] OTHER -> -1

\* the member status of the highest precedence
Highest(ts) == CHOOSE s \in Statuses(ts) : \A u \in Statuses(ts) : Rank(s) >= Rank(u)

\* C24: the status of a non-empty TranscriptGroup is the member status of the
\* highest precedence (error, then queued, then processing, then completed),
\* and adding a transcript keeps the group status or moves it toward error.
C24_GroupStatusPrecedence ==
  [][transcripts' # transcripts =>
       /\ GroupStatus(transcripts') = Highest(transcripts')
       /\ transcripts # <<>> =>
            Rank(GroupStatus(transcripts')) >= Rank(GroupStatus(transcripts))]_vars

\* the group of the unit test: completed, queued, queued, then error
C24_Witness ==
  /\ transcripts = <<"completed", "queued", "queued", "error">>
  /\ GroupStatus(SubSeq(transcripts, 1, 1)) = "completed"
  /\ GroupStatus(SubSeq(transcripts, 1, 3)) = "queued"
  /\ GroupStatus(transcripts) = "error"


\* C25: a socket is closed by disconnect() only when both pump threads have
\* ended, and they stay ended: close() never runs beside a live pump,
\* whichever threads run disconnect and however their steps interleave.
C25_JoinBeforeClose ==
  [][(openSocks' # openSocks /\ openSocks' \subseteq openSocks) =>
       /\ Exited("R") /\ Exited("W")
       /\ pc'["R"] = pc["R"] /\ pc'["W"] = pc["W"]]_vars

\* the caller's disconnect closed the socket after the remote had closed the
\* connection, which sent a pump through the error path and its disconnect
C25_Witness ==
  /\ SocketClosed
  /\ pc["c1"] = "idle"
  /\ closeCode # 0
  /\ Exited("R") /\ Exited("W")


\* C26: whenever a disconnect() call returns on a session whose connect() had
\* succeeded, the socket has been closed (by close(), or at least by the
\* remote), whichever thread ran the disconnect.
C26_DisconnectClosesSocket ==
  [][\A t \in Threads :
       (pc[t] \in DStates /\ pc'[t] \notin DStates /\ Connected /\ ws # 0) =>
         (ws \notin openSocks' \/ closeCode' # 0)]_vars


\* the read pump has just taken a frame that json.loads accepts
Decoded == nRecv' = nRecv + 1 /\ rFrame'.json

\* C27: every JSON object with an "error" key goes to the error path as an
\* error event, whatever other keys it has; it is neither dispatched as a
\* Begin, Turn or Termination event nor dropped.
C27_ErrorKeyWins ==
  [][(Decoded /\ rFrame'.error # "absent") =>
       /\ pc'["R"] = "err"
       /\ err'["R"] = ErrorEventOf(rFrame')]_vars

\* C28: a JSON object with an unknown "type", or with neither a "type" nor an
\* "error" key, is dropped: no handler runs, the pump thread stays alive and
\* goes on to the next frame.
C28_UnrecognizedDropped ==
  [][(/\ Decoded
      /\ rFrame'.error = "absent"
      /\ rFrame'.type \notin {"Begin", "Turn", "Termination"}) =>
       /\ pc'["R"] = "r_loop"
       /\ cur' = cur]_vars

\* C29: a JSON object of a known type that fails validation goes to the error
\* path: the Error handlers run and the session is disconnected; the pump
\* thread does not end with the exception.
C29_ValidationFailureToErrorPath ==
  [][(/\ Decoded
      /\ rFrame'.type \in {"Begin", "Turn", "Termination"}
      /\ ~rFrame'.valid) =>
       pc'["R"] = "err"]_vars


\* C30: while a Termination event is dispatched the stop flag is set, so each
\* of its handlers sees it set, and a disconnect(terminate=True) that such a
\* handler makes never reaches the put of a Terminate message.
C30_StopBeforeTerminationHandlers ==
  rMsg = "Termination" => (stop /\ pc["R"] # "d_put")

\* a Termination handler has called disconnect(terminate=True), the test of
\* the stop flag is passed and nothing was put on the queue
C30_Witness ==
  /\ rMsg = "Termination"
  /\ pc["R"] = "d_joinR"
  /\ term["R"]
  /\ Len(cur["R"]) >= 1
  /\ stop
  /\ enqLog = <<>>


\* C31: when the write pump has taken an item that is neither bytes nor a
\* control message, it skips the item and keeps running: its next step leads
\* back to the loop, so that the items behind it are still sent.
C31_InvalidItemSkipped ==
  [][(pc["W"] = "w_send" /\ ~IsBytes(wItem) /\ ~IsBaseModel(wItem)
      /\ pc'["W"] # pc["W"]) =>
       pc'["W"] = "w_loop"]_vars


\* a Terminate message has been passed to websocket.send
TerminateSent == \E i \in 1..Len(sent) : sent[i].kind = "Terminate"

\* on a connected session an audio chunk that was put on the queue before the
\* Terminate of a disconnect(terminate=True) has not been sent
AudioWaits ==
  /\ Connected
  /\ \E i \in 1..Len(enqLog) : \E j \in graceful :
       i < j /\ IsBytes(enqLog[i]) /\ ~WasSent(i)

\* C32: on a connected session, every audio chunk that was put on the queue
\* before the Terminate of a disconnect(terminate=True) is eventually passed
\* to websocket.send, unless the connection closes (a send fails), the write
\* pump is ended by an item it cannot send, or the remote ends the session
\* before any Terminate was sent to it.
C32_GracefulDisconnectFlushes ==
  AudioWaits ~> \/ ~AudioWaits
                \/ closeCode # 0
                \/ pc["W"] = "dead"
                \/ stop /\ ~TerminateSent


\* C33: inbound events reach the handlers in arrival order: while an event is
\* dispatched it is the event of the frame received last and only the read
\* pump's own thread is inside its dispatch; every handler call of the
\* dispatch is made with that event; and the next frame is received only when
\* the dispatch of the one before is over, all its handlers having returned.
C33_ArrivalOrderDispatch ==
  /\ [](rMsg # "none" =>
          /\ rMsg = ParseMessage(rFrame)
          /\ pc["R"] \in {"r_disp", "dead"} \cup DStates)
  /\ [][(pc["R"] = "r_disp" /\ cur'["R"] # cur["R"]) =>
          /\ Len(cur'["R"]) = Len(cur["R"]) + 1
          /\ cur'["R"][Len(cur'["R"])].arg = ParseMessage(rFrame)]_vars
  /\ [][nRecv' # nRecv => (rMsg = "none" /\ pc["R"] = "r_recv")]_vars

\* the Turn frame was received and dispatched, and then both handlers of the
\* Termination frame that arrived after it were called
C33_Witness ==
  /\ scope = ReentrantScope
  /\ nRecv = 2
  /\ rMsg = "Termination"
  /\ pc["R"] = "r_disp"
  /\ Len(cur["R"]) = 2
  /\ cur["R"][1].arg = "Termination" /\ cur["R"][2].arg = "Termination"


\* the read pump has called the Error handlers for a ConnectionClosed: it is
\* in that _handle_error, or it has ended through it (it ended with the stop
\* flag unset)
ReadReportedDrop ==
  /\ cur["R"] # <<>>
  /\ \/ pc["R"] \in {"err"} \cup DStates /\ err["R"].src = "closed"
     \/ pc["R"] = "done" /\ ~stop

\* the write pump has called the Error handlers, which it does for a
\* ConnectionClosed of send only
WriteReportedDrop == cur["W"] # <<>>

\* C34: for one connection drop the Error handlers are invoked at most once
\* in total: not by the read pump for its recv and again by the write pump
\* for its send.
C34_DropReportedOnce ==
  nConnect = 1 => ~(ReadReportedDrop /\ WriteReportedDrop)


C36_DisconnectNeverRaises ==
  [][\A t \in Threads :
       (pc[t] \in DStates /\ pc'[t] # pc[t]) =>
         /\ pc'[t] \in DStates \cup {AfterDisconnect(t)}
         /\ raised' = raised]_vars

\* disconnect(terminate=True) was called before any connect(): it put its
\* Terminate, its join of the unstarted thread raised, and it returned
C36_Witness ==
  /\ nConnect = 0
  /\ pc["c1"] = "idle"
  /\ enqLog = <<Item("Terminate", 1)>>
  /\ raised = {}
  /\ ws = 0


\* C37: an exception a handler raises while the read pump dispatches an event
\* is contained: the step that leaves the dispatch leads back to the loop of
\* _read_message (or into a disconnect the handler called), never to the end
\* of the thread.
C37_HandlerExceptionContained ==
  [][(pc["R"] = "r_disp" /\ pc'["R"] # "r_disp") =>
       pc'["R"] \in {"r_loop"} \cup DStates]_vars

\* on_close calls among the callback calls thread t made last
OnCloseCalls(t) ==
  Cardinality({i \in 1..Len(cur[t]) : cur[t][i].h = "on_close"})

\* C38: on_close is invoked at most once per session, whichever of the
\* caller's close() and the close() of the pumps' error handling run.
C38_RtOnCloseOnce ==
  nConnect <= 1 =>
    OnCloseCalls("c1") + OnCloseCalls("R") + OnCloseCalls("W") <= 1


\* the cached client was built from the module-wide settings as they are
CachedIsCurrent == default # NoClient /\ default.settings = settings

\* C39: while the settings stay as they are, concurrent calls of
\* Client.get_default construct at most one Client and all return that
\* instance: a Client is constructed only when the cached one is missing or
\* stale and becomes the cached one, the cached one changes in no other way,
\* and every call returns the cached, current instance.
C39_OneDefaultClient ==
  /\ [][nClient' # nClient =>
          /\ ~CachedIsCurrent
          /\ nClient' = nClient + 1
          /\ default' = [id |-> nClient', settings |-> settings]]_vars
  /\ [][default' # default => nClient' # nClient]_vars
  /\ [][\A g \in GetThreads :
          (gpc[g] = "g_ret" /\ gpc'[g] = "idle") =>
            (CachedIsCurrent /\ got'[g] = Returned(default))]_vars

\* both threads found no cached client; g1 built it and returned it, g2 got
\* the lock after that and tests again inside it
C39_Witness ==
  /\ nChange = 0
  /\ nClient = 1 /\ default.id = 1
  /\ gpc["g1"] = "idle" /\ got["g1"] = Returned(default)
  /\ gpc["g2"] = "g_check2" /\ lock = "g2"

====
